---- MODULE Spec2Model ----
(***************************************************************************)
(* A model of git-glimpse: src/src/lib.rs (run, Error, show_graph,         *)
(* list_branches_cmd, stdout_lines, git_config) and src/src/main.rs (the   *)
(* `git glimpse` binary: the Stack, Locals and Select subcommands).        *)
(*                                                                         *)
(* The program is sequential.  One action models the code that runs up to  *)
(* and including one `git` subprocess and the handling of its result; the  *)
(* subprocess's outcome is the environment's choice.                       *)
(*                                                                         *)
(* Text is a sequence of pieces (Str): "main" is <<"main">> and            *)
(* format!("^{merge_base}^@") is <<"^">> \o merge_base \o <<"^@">>, so     *)
(* that git's parsing of a `--format=` string can be modelled.  Option<T>  *)
(* is a sequence of length at most one.                                    *)
(***************************************************************************)
EXTENDS Integers, Sequences, FiniteSets, TLC

\* ------------------------------------------------------------------ bounds

\* Longest path filter list given on the command line.
MaxFiles == 1
\* Longest explicit reference list given to select.
MaxRefs == 2
\* Most lines git merge-base or git config prints.
MaxLines == 2

\* ------------------------------------------------------- program constants

\* exit(code.unwrap_or(255))
SignalSentinel == 255
\* exit(254) after log::error!
InternalSentinel == 254
\* Some(1) => return Ok(None): git config found no such key
KeyAbsentCode == 1
\* the exit status of a Rust process whose main thread panicked (assert!)
PanicCode == 101

\* ------------------------------------------------------------ Option, text

None == <<>>
Some(x) == <<x>>
IsSome(o) == Len(o) = 1
Unwrap(o) == o[1]

S(text) == <<text>>

RECURSIVE Concat(_)
Concat(strs) == IF strs = <<>> THEN <<>> ELSE Head(strs) \o Concat(Tail(strs))

IsSpace(piece) == piece \in {"", " "}

\* str::trim at the granularity of pieces: leading and trailing whitespace
\* goes, inner whitespace stays.
RECURSIVE TrimStart(_)
TrimStart(s) == IF s # <<>> /\ IsSpace(Head(s)) THEN TrimStart(Tail(s)) ELSE s

RECURSIVE TrimEnd(_)
TrimEnd(s) ==
    IF s # <<>> /\ IsSpace(s[Len(s)]) THEN TrimEnd(SubSeq(s, 1, Len(s) - 1)) ELSE s

Trim(s) == TrimEnd(TrimStart(s))

\* Vec::pop as the pair it leaves: the popped Option and the rest.
Pop(v) == IF v = <<>> THEN None ELSE Some(v[Len(v)])

\* -------------------------------------------------------------- lib.rs

\* Error::SubprocessFailedWithExplanation { code } and Error::Other { source }
SubprocessFailedWithExplanation(code) ==
    [kind |-> "SubprocessFailedWithExplanation", code |-> code, source |-> ""]

Other(source) == [kind |-> "Other", code |-> None, source |-> source]

\* A panic unwinds past run: no Error value, the process dies with 101.
Panic(msg) == [kind |-> "panic", code |-> None, source |-> msg]

Ok(v) == [ok |-> TRUE, val |-> v, err |-> Other("")]
Err(e) == [ok |-> FALSE, val |-> <<>>, err |-> e]

\* Error::from_status: status is ExitStatus::code(), an Option<i32>
from_status(status) ==
    IF status = Some(0) THEN Ok(<<>>)
    ELSE Err(SubprocessFailedWithExplanation(status))

\* run with the two sentinels confused: a missing exit code gives 254.
run_one_sentinel(res) ==
    IF res.ok THEN 0
    ELSE IF res.err.kind = "SubprocessFailedWithExplanation"
         THEN (IF IsSome(res.err.code) THEN Unwrap(res.err.code) ELSE InternalSentinel)
    ELSE IF res.err.kind = "Other" THEN InternalSentinel
    ELSE PanicCode

\* What run does with f()'s result: the process exit code.
run(res) ==
    IF res.ok THEN 0
    ELSE IF res.err.kind = "SubprocessFailedWithExplanation"
         THEN (IF IsSome(res.err.code) THEN Unwrap(res.err.code) ELSE SignalSentinel)
    ELSE IF res.err.kind = "Other" THEN InternalSentinel
    ELSE PanicCode

\* What run logs: log::error!("{source:?}") for Error::Other only.
run_log(res) ==
    IF ~res.ok /\ res.err.kind = "Other" THEN <<[level |-> "error", msg |-> res.err.source]>>
    ELSE <<>>

\* stdout_lines without the check of the exit status.
stdout_lines_unchecked(out) ==
    IF ~out.spawned THEN Err(Other("spawn"))
    ELSE IF ~out.utf8 THEN Err(Other("stdout was not UTF-8"))
    ELSE Ok([i \in 1..Len(out.lines) |-> Trim(out.lines[i])])

\* stdout_lines on the outcome of cmd.output(): spawn failure, then the exit
\* status, then UTF-8, then lines().map(trim).
stdout_lines(out) ==
    IF ~out.spawned THEN Err(Other("spawn"))
    ELSE IF ~from_status(out.code).ok THEN from_status(out.code)
    ELSE IF ~out.utf8 THEN Err(Other("stdout was not UTF-8"))
    ELSE Ok([i \in 1..Len(out.lines) |-> Trim(out.lines[i])])

\* git_config with every non-zero exit code an error, 1 included.
git_config_strict(out) ==
    IF ~out.spawned THEN Err(Other("spawn"))
    ELSE IF out.code = Some(0) THEN
        IF ~out.utf8 THEN Err(Other("stdout was not UTF-8"))
        ELSE IF Len(out.lines) > 1
             THEN Err(Panic("returned more than a single line of output"))
        ELSE IF out.lines = <<>> THEN Ok(None)
        ELSE Ok(Some(Trim(out.lines[1])))
    ELSE from_status(out.code)

\* git_config on the outcome of git config <path>.
git_config(out) ==
    IF ~out.spawned THEN Err(Other("spawn"))
    ELSE IF out.code = Some(0) THEN
        IF ~out.utf8 THEN Err(Other("stdout was not UTF-8"))
        ELSE IF Len(out.lines) > 1
             THEN Err(Panic("returned more than a single line of output"))
        ELSE IF out.lines = <<>> THEN Ok(None)
        ELSE Ok(Some(Trim(out.lines[1])))
    ELSE IF out.code = Some(KeyAbsentCode) THEN Ok(None)
    ELSE from_status(out.code)

\* list_branches_cmd(config): the argument list before config's own
list_branches_cmd == <<S("branch"), S("--list"), <<"--format=", "%(refname:short)">>>>

\* ------------------------------------------------- git, the environment

\* The two local branch names a repository of the model may hold, in the
\* order git lists them (by refname).
BranchOrder == <<"dev", "main">>
BranchNames == {BranchOrder[i] : i \in 1..Len(BranchOrder)}

\* What a branch name is in a repository: no such branch, a branch without
\* remote counterparts, or one with an @{upstream}, a @{push}, or both.
Tracking == {"absent", "plain", "upstream", "push", "both"}

HasUpstream(t) == t \in {"upstream", "both"}
HasPush(t) == t \in {"push", "both"}

\* One line of git branch --list before formatting.  With HEAD detached
\* git lists the detached HEAD first, as "(HEAD detached at <commit>)".
DetachedEntry ==
    [match |-> "HEAD", short |-> "(HEAD detached at c0ffee)", isHead |-> TRUE,
     upstream |-> "", push |-> ""]

BranchEntry(name, head, refs) ==
    [match |-> name, short |-> name, isHead |-> (head = Some(S(name))),
     upstream |-> IF HasUpstream(refs[name]) THEN "origin/" \o name ELSE "",
     push |-> IF HasPush(refs[name]) THEN "fork/" \o name ELSE ""]

Entries(head, refs) ==
    (IF head = None THEN <<DetachedEntry>> ELSE <<>>)
    \o LET present == SelectSeq(BranchOrder, LAMBDA b : refs[b] # "absent")
       IN [i \in 1..Len(present) |-> BranchEntry(present[i], head, refs)]

\* git's expansion of one atom of a --format string for one entry; any other
\* piece is literal text.
Atom(tok, e) ==
    CASE tok = "%(HEAD)" -> IF e.isHead THEN "*" ELSE " "
      [] tok = "%(refname:short)" -> e.short
      [] tok = "%(upstream)" -> IF e.upstream = "" THEN "" ELSE "refs/remotes/" \o e.upstream
      [] tok = "%(upstream:short)" -> e.upstream
      [] tok = "%(push)" -> IF e.push = "" THEN "" ELSE "refs/remotes/" \o e.push
      [] tok = "%(push:short)" -> e.push
      [] OTHER -> tok

\* %(if) takes its %(then) part when the condition expands to something other
\* than whitespace.
IsBlank(pieces) == \A i \in 1..Len(pieces) : IsSpace(pieces[i])

\* git's expansion of toks[i..] up to the %(then), %(else) or %(end) that
\* closes it: the pieces, and the place of the closing atom.
RECURSIVE Expand(_, _, _)
Expand(toks, i, e) ==
    IF i > Len(toks) \/ toks[i] \in {"%(then)", "%(else)", "%(end)"}
    THEN [out |-> <<>>, next |-> i]
    ELSE IF toks[i] = "%(if)"
    THEN LET c == Expand(toks, i + 1, e)
             t == Expand(toks, c.next + 1, e)
             hasElse == t.next <= Len(toks) /\ toks[t.next] = "%(else)"
             f == IF hasElse THEN Expand(toks, t.next + 1, e)
                  ELSE [out |-> <<>>, next |-> t.next]
             rest == Expand(toks, f.next + 1, e)
         IN [out |-> (IF IsBlank(c.out) THEN f.out ELSE t.out) \o rest.out,
             next |-> rest.next]
    ELSE LET rest == Expand(toks, i + 1, e)
         IN [out |-> <<Atom(toks[i], e)>> \o rest.out, next |-> rest.next]

\* The lines of a text given as pieces: "\n" ends a line.
RECURSIVE SplitLines(_)
SplitLines(pieces) ==
    LET cut == {i \in 1..Len(pieces) : pieces[i] = "\n"}
    IN IF cut = {} THEN <<pieces>>
       ELSE LET k == CHOOSE i \in cut : \A j \in cut : i <= j
            IN <<SubSeq(pieces, 1, k - 1)>>
               \o SplitLines(SubSeq(pieces, k + 1, Len(pieces)))

IsFormatArg(a) == a # <<>> /\ a[1] = "--format="

\* git branch --list <argv>: the last --format wins, the other arguments are
\* patterns; an entry is listed when no pattern is given or one matches it.
git_branch_list(argv, head, refs) ==
    LET fmts == {i \in 1..Len(argv) : IsFormatArg(argv[i])}
        last == CHOOSE i \in fmts : \A j \in fmts : j <= i
        fmt == Tail(argv[last])
        pats == {argv[i] : i \in {j \in 3..Len(argv) : ~IsFormatArg(argv[j])}}
        all == Entries(head, refs)
        listed == SelectSeq(all, LAMBDA e : pats = {} \/ S(e.match) \in pats)
    IN Concat([i \in 1..Len(listed) |-> SplitLines(Expand(fmt, 1, listed[i]).out)])

\* git branch --show-current prints the branch, or nothing when detached.
git_show_current(head) == IF head = None THEN <<>> ELSE <<Unwrap(head)>>

\* The non-zero exit codes a git subprocess of the model ends with.
FailCodes == {1, 128}

\* The outcomes of running a subprocess whose successful output is one of
\* okLines: it cannot be spawned, it is killed by a signal (no exit code), it
\* exits non-zero, it prints bytes that are not UTF-8, or it succeeds.
Outcomes(okLines) ==
    {[spawned |-> FALSE, code |-> None, utf8 |-> TRUE, lines |-> <<>>]}
    \cup {[spawned |-> TRUE, code |-> c, utf8 |-> TRUE, lines |-> <<>>] :
            c \in {None} \cup {Some(x) : x \in FailCodes}}
    \cup {[spawned |-> TRUE, code |-> Some(0), utf8 |-> FALSE, lines |-> <<>>]}
    \cup {[spawned |-> TRUE, code |-> Some(0), utf8 |-> TRUE, lines |-> l] : l \in okLines}

\* The first n of a pool of values, as lines of output.
LinesOf(pool, n) == [i \in 1..n |-> S(pool[((i - 1) % Len(pool)) + 1])]

CommitPool == <<"c0ffee", "deadbeef", "f00d">>
BasePool == <<"trunk", "next">>
PrettyPool == <<"oneline", "short">>
FilePool == <<"src", "docs">>

\* ------------------------------------------------------------- main.rs

VARIABLES
    args,             \* Args::parse(): format and the subcommand with its fields
    head,             \* the repository: the checked-out branch, None when detached
    refs,             \* the repository: branch name -> Tracking
    pc,               \* the subprocess the run is about to start, or "exited"
    specified_base,   \* main: Option<String>, --base or glimpse.base
    current_branch,   \* main: the result of current_branch() in Stack
    config,           \* the PresetConfig handed to the branches closure
    cmd_config,       \* the arguments the cmd_config closure adds to the listing
    head_is_detached, \* branches closure
    branches,         \* the reference list
    merge_base,       \* show_graph
    format,           \* show_graph: the format after the fallback to glimpse.pretty
    trace,            \* every subprocess so far: its arguments and its outcome
    logs,             \* what was logged at warn or error level
    exit_code         \* the process exit code, None while running

vars == <<args, head, refs, pc, specified_base, current_branch, config, cmd_config,
          head_is_detached, branches, merge_base, format, trace, logs, exit_code>>

env == <<args, head, refs>>

PresetConfig == [select_upstreams : BOOLEAN, select_pushes : BOOLEAN, select_last_tag : BOOLEAN]

NoPreset == [select_upstreams |-> FALSE, select_pushes |-> FALSE, select_last_tag |-> FALSE]

Formats == {None, Some(S("%h %s"))}
Files == {LinesOf(FilePool, n) : n \in 0..MaxFiles}
RefLists == UNION {[1..n -> {S("release"), S("main")}] : n \in 0..MaxRefs}

\* The command lines of the model.  "none" is no subcommand at all.
ArgsSet ==
    [format : Formats, kind : {"none"}, base : {None}, config : {NoPreset},
     branches : {<<>>}, files : {<<>>}]
    \cup [format : Formats, kind : {"stack"}, base : {None, Some(S("dev"))},
          config : PresetConfig, branches : {<<>>}, files : Files]
    \cup [format : Formats, kind : {"locals"}, base : {None}, config : PresetConfig,
          branches : {<<>>}, files : Files]
    \cup [format : Formats, kind : {"select"}, base : {None}, config : {NoPreset},
          branches : RefLists, files : Files]

\* subcommand.unwrap_or_else(|| Subcommand::Stack { base: None, all flags off, no files })
subcommand == IF args.kind = "none" THEN [args EXCEPT !.kind = "stack"] ELSE args

\* Select never asks git about branches: one repository stands for all.
Init ==
    /\ args \in ArgsSet
    /\ refs \in [BranchNames -> Tracking]
    /\ head \in {None} \cup {Some(S(b)) : b \in {n \in BranchNames : refs[n] # "absent"}}
    /\ args.kind = "select" => head = None /\ refs = [b \in BranchNames |-> "absent"]
    /\ pc = "main"
    /\ specified_base = None
    /\ current_branch = None
    /\ config = subcommand.config
    /\ cmd_config = <<>>
    /\ head_is_detached = FALSE
    /\ branches = <<>>
    /\ merge_base = <<>>
    /\ format = None
    /\ trace = <<>>
    /\ logs = <<>>
    /\ exit_code = None

Git(argv, out) == [argv |-> <<S("git")>> \o argv, out |-> out]

\* f() returned res to run: the process ends.
Exit(res) ==
    /\ pc' = "exited"
    /\ exit_code' = Some(run(res))
    /\ logs' = logs \o run_log(res)

\* base with another default branch name.
base_master == IF IsSome(specified_base) THEN Unwrap(specified_base) ELSE S("master")

\* let base = specified_base.as_deref().unwrap_or_else(|| "main")
base == IF IsSome(specified_base) THEN Unwrap(specified_base) ELSE S("main")

\* Subcommand::Stack with --base: no lookup of glimpse.base.
StackBaseFlag ==
    /\ pc = "main" /\ subcommand.kind = "stack" /\ IsSome(subcommand.base)
    /\ specified_base' = subcommand.base
    /\ pc' = "stack_current"
    /\ UNCHANGED <<env, current_branch, config, cmd_config, head_is_detached, branches,
                   merge_base, format, trace, logs, exit_code>>

\* Subcommand::Stack without --base: git_config("glimpse.base").
StackBaseConfig ==
    /\ pc = "main" /\ subcommand.kind = "stack" /\ ~IsSome(subcommand.base)
    /\ \E out \in Outcomes({LinesOf(BasePool, n) : n \in 0..MaxLines}) :
         LET res == git_config(out) IN
         /\ trace' = Append(trace, Git(<<S("config"), S("glimpse.base")>>, out))
         /\ IF res.ok
            THEN /\ specified_base' = res.val
                 /\ pc' = "stack_current"
                 /\ UNCHANGED <<logs, exit_code>>
            ELSE /\ Exit(res)
                 /\ UNCHANGED specified_base
    /\ UNCHANGED <<env, current_branch, config, cmd_config, head_is_detached, branches,
                   merge_base, format>>

\* The current_branch closure: git branch --show-current, then lines.pop().
\* Its debug_assert!(lines.is_empty()) cannot fail: git prints one line at most.
current_branch_res(out) ==
    LET res == stdout_lines(out) IN IF res.ok THEN Ok(Pop(res.val)) ELSE res

\* stack_config without the forcing of upstreams on the base.
stack_config_unforced(cur) == config

\* Subcommand::Stack with a branch checked out: upstreams are selected as well
\* when that branch is the base.
stack_config(cur) ==
    IF cur = Some(base) THEN [config EXCEPT !.select_upstreams = TRUE] ELSE config

\* Subcommand::Stack: what the cmd_config closure adds to the listing: the
\* base unless it is the current branch, then the current branch; the base
\* alone when HEAD is detached.
stack_cmd_config(cur) ==
    IF IsSome(cur)
    THEN (IF base # Unwrap(cur) THEN <<base>> ELSE <<>>) \o <<Unwrap(cur)>>
    ELSE <<base>>

\* Subcommand::Stack: current_branch()?, then the configuration of the listing.
StackCurrent ==
    /\ pc = "stack_current"
    /\ \E out \in Outcomes({git_show_current(head)}) :
         LET res == current_branch_res(out) IN
         /\ trace' = Append(trace, Git(<<S("branch"), S("--show-current")>>, out))
         /\ IF res.ok
            THEN /\ current_branch' = res.val
                 /\ config' = IF IsSome(res.val) THEN stack_config(res.val) ELSE config
                 /\ cmd_config' = stack_cmd_config(res.val)
                 /\ pc' = "branches_current"
                 /\ UNCHANGED <<logs, exit_code>>
            ELSE /\ Exit(res)
                 /\ UNCHANGED <<current_branch, config, cmd_config>>
    /\ UNCHANGED <<env, specified_base, head_is_detached, branches, merge_base, format>>

\* Subcommand::Locals: branches(&config, &|cmd| cmd)
Locals ==
    /\ pc = "main" /\ subcommand.kind = "locals"
    /\ pc' = "branches_current"
    /\ UNCHANGED <<env, specified_base, current_branch, config, cmd_config, head_is_detached,
                   branches, merge_base, format, trace, logs, exit_code>>

\* Subcommand::Select: the given references are the list.
Select ==
    /\ pc = "main" /\ subcommand.kind = "select"
    /\ branches' = subcommand.branches
    /\ pc' = "merge_base"
    /\ UNCHANGED <<env, specified_base, current_branch, config, cmd_config, head_is_detached,
                   merge_base, format, trace, logs, exit_code>>

\* branches closure: let head_is_detached = current_branch()?.is_none()
BranchesCurrent ==
    /\ pc = "branches_current"
    /\ \E out \in Outcomes({git_show_current(head)}) :
         LET res == current_branch_res(out) IN
         /\ trace' = Append(trace, Git(<<S("branch"), S("--show-current")>>, out))
         /\ IF res.ok
            THEN /\ head_is_detached' = ~IsSome(res.val)
                 /\ pc' = "branches_list"
                 /\ UNCHANGED <<logs, exit_code>>
            ELSE /\ Exit(res)
                 /\ UNCHANGED head_is_detached
    /\ UNCHANGED <<env, specified_base, current_branch, config, cmd_config, branches, merge_base,
                   format>>

\* include_in_format without the %(if) guard: a line even when the property
\* is empty.
include_in_format_unguarded(prop_name) == <<"\n", "%(" \o prop_name \o ":short)">>

\* format += "%(if)%({prop_name})%(then)\n%({prop_name}:short)%(end)"
include_in_format(prop_name) ==
    <<"%(if)", "%(" \o prop_name \o ")", "%(then)", "\n", "%(" \o prop_name \o ":short)",
      "%(end)">>

\* branches closure: the --format argument of the listing.
branches_format(sel_config, detached) ==
    <<"--format=">>
    \o (IF detached THEN <<"%(if)", "%(HEAD)", "%(then)", "HEAD", "%(else)">> ELSE <<>>)
    \o <<"%(refname:short)">>
    \o (IF sel_config.select_upstreams THEN include_in_format("upstream") ELSE <<>>)
    \o (IF sel_config.select_pushes THEN include_in_format("push") ELSE <<>>)
    \o (IF detached THEN <<"%(end)">> ELSE <<>>)

\* list_branches_cmd(|cmd| cmd_config(cmd.arg(format)))
list_argv == list_branches_cmd \o <<branches_format(config, head_is_detached)>> \o cmd_config

\* selected without the push of HEAD.
selected_without_head(list) == list

\* What main does with the list the branches closure returned: Stack with a
\* detached HEAD pushes "HEAD", every other case takes the list as it is.
selected(list) ==
    IF subcommand.kind = "stack" /\ ~IsSome(current_branch)
    THEN Append(list, S("HEAD"))
    ELSE list

\* branches closure: stdout_lines(list_branches_cmd(..))?, and the return to
\* main when no last tag is asked for.
BranchesList ==
    /\ pc = "branches_list"
    /\ \E out \in Outcomes({git_branch_list(list_argv, head, refs)}) :
         LET res == stdout_lines(out) IN
         /\ trace' = Append(trace, Git(list_argv, out))
         /\ IF ~res.ok
            THEN /\ Exit(res)
                 /\ UNCHANGED branches
            ELSE IF config.select_last_tag
            THEN /\ branches' = res.val
                 /\ pc' = "branches_tag"
                 /\ UNCHANGED <<logs, exit_code>>
            ELSE /\ branches' = selected(res.val)
                 /\ pc' = "merge_base"
                 /\ UNCHANGED <<logs, exit_code>>
    /\ UNCHANGED <<env, specified_base, current_branch, config, cmd_config, head_is_detached,
                   merge_base, format>>

\* branches closure: git rev-list --tags --max-count=1, its last line pushed,
\* or a warning; then the return to main.
BranchesTag ==
    /\ pc = "branches_tag"
    /\ \E out \in Outcomes({LinesOf(CommitPool, n) : n \in 0..1}) :
         LET res == stdout_lines(out) IN
         /\ trace' = Append(trace,
                Git(<<S("rev-list"), S("--tags"), S("--max-count=1")>>, out))
         /\ IF ~res.ok
            THEN /\ Exit(res)
                 /\ UNCHANGED branches
            ELSE /\ branches' = selected(IF IsSome(Pop(res.val))
                                         THEN Append(branches, Unwrap(Pop(res.val)))
                                         ELSE branches)
                 /\ logs' = IF IsSome(Pop(res.val)) THEN logs
                            ELSE Append(logs, [level |-> "warn",
                                   msg |-> "last tag requested, but no last tag was found"])
                 /\ pc' = "merge_base"
                 /\ UNCHANGED exit_code
    /\ UNCHANGED <<env, specified_base, current_branch, config, cmd_config, head_is_detached,
                   merge_base, format>>

\* --------------------------------------------------------- show_graph

\* git merge-base --octopus <object_names>
merge_base_argv == <<S("merge-base"), S("--octopus")>> \o branches

\* merge_base_res asking only for some output, and taking its last line.
merge_base_res_nonempty(out) ==
    LET res == stdout_lines(out) IN
    IF ~res.ok THEN res
    ELSE IF Len(res.val) = 0 THEN Err(Other("expected a single line of output"))
    ELSE Ok(Unwrap(Pop(res.val)))

\* show_graph: the merge base, which must be the single line of output.
merge_base_res(out) ==
    LET res == stdout_lines(out) IN
    IF ~res.ok THEN res
    ELSE IF Len(res.val) # 1 THEN Err(Other("expected a single line of output"))
    ELSE Ok(Unwrap(Pop(res.val)))

MergeBase ==
    /\ pc = "merge_base"
    /\ \E out \in Outcomes({LinesOf(CommitPool, n) : n \in 0..MaxLines}) :
         LET res == merge_base_res(out) IN
         /\ trace' = Append(trace, Git(merge_base_argv, out))
         /\ IF ~res.ok
            THEN /\ Exit(res)
                 /\ UNCHANGED <<merge_base, format>>
            ELSE /\ merge_base' = res.val
                 /\ format' = args.format
                 /\ pc' = IF IsSome(args.format) THEN "log" ELSE "config_pretty"
                 /\ UNCHANGED <<logs, exit_code>>
    /\ UNCHANGED <<env, specified_base, current_branch, config, cmd_config, head_is_detached,
                   branches>>

\* show_graph without a format: git_config("glimpse.pretty")
ConfigPretty ==
    /\ pc = "config_pretty"
    /\ \E out \in Outcomes({LinesOf(PrettyPool, n) : n \in 0..MaxLines}) :
         LET res == git_config(out) IN
         /\ trace' = Append(trace, Git(<<S("config"), S("glimpse.pretty")>>, out))
         /\ IF ~res.ok
            THEN /\ Exit(res)
                 /\ UNCHANGED format
            ELSE /\ format' = res.val
                 /\ pc' = "log"
                 /\ UNCHANGED <<logs, exit_code>>
    /\ UNCHANGED <<env, specified_base, current_branch, config, cmd_config, head_is_detached,
                   branches, merge_base>>

\* log_argv with the path filters before the separator.
log_argv_files_first ==
    <<S("log"), S("--graph"), S("--decorate")>>
    \o (IF IsSome(format) THEN <<<<"--format=">> \o Unwrap(format)>> ELSE <<>>)
    \o <<S("--ancestry-path"), <<"^">> \o merge_base \o <<"^@">>>>
    \o branches
    \o subcommand.files
    \o <<S("--")>>

\* log_argv with a --format argument even when there is no format.
log_argv_always_format ==
    <<S("log"), S("--graph"), S("--decorate")>>
    \o <<<<"--format=">> \o (IF IsSome(format) THEN Unwrap(format) ELSE <<>>)>>
    \o <<S("--ancestry-path"), <<"^">> \o merge_base \o <<"^@">>>>
    \o branches
    \o <<S("--")>>
    \o subcommand.files

\* The argument list of the git log command.
log_argv ==
    <<S("log"), S("--graph"), S("--decorate")>>
    \o (IF IsSome(format) THEN <<<<"--format=">> \o Unwrap(format)>> ELSE <<>>)
    \o <<S("--ancestry-path"), <<"^">> \o merge_base \o <<"^@">>>>
    \o branches
    \o <<S("--")>>
    \o subcommand.files

\* spawn_and_wait().map_err(Error::other).and_then(Error::from_status)
log_res(out) == IF ~out.spawned THEN Err(Other("spawn")) ELSE from_status(out.code)

\* The outcomes of a subprocess whose output goes to the terminal.
StatusOutcomes ==
    {[spawned |-> FALSE, code |-> None, utf8 |-> TRUE, lines |-> <<>>]}
    \cup {[spawned |-> TRUE, code |-> c, utf8 |-> TRUE, lines |-> <<>>] :
            c \in {None} \cup {Some(x) : x \in FailCodes \cup {0}}}

\* show_graph: git log, whose status is the result of the run.
Log ==
    /\ pc = "log"
    /\ \E out \in StatusOutcomes :
         /\ trace' = Append(trace, Git(log_argv, out))
         /\ Exit(log_res(out))
    /\ UNCHANGED <<env, specified_base, current_branch, config, cmd_config, head_is_detached,
                   branches, merge_base, format>>

Next ==
    \/ StackBaseFlag
    \/ StackBaseConfig
    \/ StackCurrent
    \/ Locals
    \/ Select
    \/ BranchesCurrent
    \/ BranchesList
    \/ BranchesTag
    \/ MergeBase
    \/ ConfigPretty
    \/ Log

Spec == Init /\ [][Next]_vars

\* ============================================================== claims

\* The subprocesses so far that ran git <sub> ...
Ran(sub) == {i \in 1..Len(trace) : trace[i].argv[2] = S(sub)}
RanConfig(key) == {i \in Ran("config") : trace[i].argv[3] = S(key)}
RanBranch(flag) == {i \in Ran("branch") : trace[i].argv[3] = S(flag)}

\* How a subprocess ended.
ExitedWith(o, c) == o.spawned /\ o.code = Some(c)
Succeeded(o) == ExitedWith(o, 0)
Printed(o) == Succeeded(o) /\ o.utf8
ExitedNonZero(o) == o.spawned /\ IsSome(o.code) /\ o.code # Some(0)
Signalled(o) == o.spawned /\ o.code = None

Logged(level) == {i \in 1..Len(logs) : logs[i].level = level}

\* The selection is over: the reference list went to show_graph.
Selected == pc \in {"merge_base", "config_pretty", "log"} \/ Ran("merge-base") # {}

Count(seq, x) == Cardinality({i \in 1..Len(seq) : seq[i] = x})

\* ------------------------------------------------------------------ C1

\* The exit code the last subprocess of a finished run calls for: its own
\* non-zero code, 255 without a code, 254 for a failure of the program's
\* own; git config ending with 1 is no failure and is never the last.
MirroredCode(last) ==
    IF ~last.out.spawned THEN InternalSentinel
    ELSE IF Signalled(last.out) THEN SignalSentinel
    ELSE IF ExitedNonZero(last.out) THEN Unwrap(last.out.code)
    ELSE IF last.argv[2] = S("log") THEN 0
    ELSE IF ~last.out.utf8 THEN InternalSentinel
    ELSE IF last.argv[2] = S("config") THEN PanicCode
    ELSE InternalSentinel

\* C1 (as stated): at the end of a run the exit code is 0 when git log exited
\* 0, c when any git subprocess exited with a non-zero code c, 255 when a
\* subprocess had no exit code, and 254 with a logged error when a subprocess
\* could not be spawned, printed non-UTF-8 or merge-base did not print one line.
C1_AsStated ==
    pc = "exited" =>
        /\ \A i \in Ran("log") : Succeeded(trace[i].out) => exit_code = Some(0)
        /\ \A i \in 1..Len(trace) :
             /\ ExitedNonZero(trace[i].out) => exit_code = trace[i].out.code
             /\ Signalled(trace[i].out) => exit_code = Some(SignalSentinel)
             /\ ~trace[i].out.spawned => exit_code = Some(InternalSentinel) /\ Logged("error") # {}
             /\ Succeeded(trace[i].out) /\ ~trace[i].out.utf8 /\ trace[i].argv[2] # S("log")
                  => exit_code = Some(InternalSentinel) /\ Logged("error") # {}
        /\ \A i \in Ran("merge-base") :
             Printed(trace[i].out) /\ Len(trace[i].out.lines) # 1
                => exit_code = Some(InternalSentinel) /\ Logged("error") # {}

\* A subprocess that ends the run: anything but success, except git config
\* ending with 1, which only says that the key is not set.
KeyAbsent(t) == t.argv[2] = S("config") /\ ExitedWith(t.out, KeyAbsentCode)
Fatal(t) == ~Succeeded(t.out) /\ ~KeyAbsent(t)

\* C1 (amended): as stated, but for a subprocess other than a git config
\* lookup ending with 1: that lookup does not end the run and its code is not
\* the exit code.  Every subprocess that fails otherwise is the last one.
C1_ExitCode ==
    /\ \A i \in 1..Len(trace) : Fatal(trace[i]) => pc = "exited" /\ i = Len(trace)
    /\ pc = "exited" =>
        /\ \A i \in Ran("log") : Succeeded(trace[i].out) => exit_code = Some(0)
        /\ \A i \in 1..Len(trace) :
             /\ ExitedNonZero(trace[i].out) /\ ~KeyAbsent(trace[i])
                  => exit_code = trace[i].out.code
             /\ Signalled(trace[i].out) => exit_code = Some(SignalSentinel)
             /\ ~trace[i].out.spawned => exit_code = Some(InternalSentinel) /\ Logged("error") # {}
             /\ Succeeded(trace[i].out) /\ ~trace[i].out.utf8 /\ trace[i].argv[2] # S("log")
                  => exit_code = Some(InternalSentinel) /\ Logged("error") # {}
        /\ \A i \in Ran("merge-base") :
             Printed(trace[i].out) /\ Len(trace[i].out.lines) # 1
                => exit_code = Some(InternalSentinel) /\ Logged("error") # {}
        /\ exit_code = Some(MirroredCode(trace[Len(trace)]))
        /\ exit_code # Some(InternalSentinel) => Logged("error") = {}

\* A run in which glimpse.base was not set (git config ended with 1) and git
\* log, the last subprocess, ended with 128, which is the exit code.
C1_Witness ==
    /\ pc = "exited"
    /\ \E i \in RanConfig("glimpse.base") : ExitedWith(trace[i].out, KeyAbsentCode)
    /\ \E i \in Ran("log") : ExitedWith(trace[i].out, 128)
    /\ exit_code = Some(128)

\* ------------------------------------------------------------------ C2

C3_LogArguments ==
    /\ Cardinality(Ran("log")) <= 1
    /\ \A i \in Ran("log") :
         LET argv == trace[i].argv
             fmt == IF IsFormatArg(argv[5]) THEN <<argv[5]>> ELSE <<>>
             M == trace[CHOOSE j \in Ran("merge-base") : TRUE].out.lines[1]
             R == IF args.kind = "select" THEN args.branches ELSE branches
         IN /\ Cardinality(Ran("merge-base")) = 1
            /\ argv = <<S("git"), S("log"), S("--graph"), S("--decorate")>>
                      \o fmt
                      \o <<S("--ancestry-path"), <<"^">> \o M \o <<"^@">>>>
                      \o R
                      \o <<S("--")>>
                      \o args.files
            /\ trace[CHOOSE j \in Ran("merge-base") : TRUE].argv
                 = <<S("git"), S("merge-base"), S("--octopus")>> \o R

\* select release main without path filters: tips release and main, the bound
\* ^c0ffee^@ and nothing after the separator.
C3_Witness ==
    /\ args.kind = "select" /\ args.format = None
    /\ \E i \in Ran("log") :
         /\ Succeeded(trace[i].out)
         /\ trace[i].argv = <<S("git"), S("log"), S("--graph"), S("--decorate"),
                              S("--ancestry-path"), <<"^", "c0ffee", "^@">>,
                              S("release"), S("main"), S("--")>>

\* ------------------------------------------------------------------ C4

\* The base the precedence calls for: --base, else the value git config
\* printed for glimpse.base, else main.
ExpectedBase ==
    IF IsSome(args.base) THEN Unwrap(args.base)
    ELSE IF \E i \in RanConfig("glimpse.base") :
                Printed(trace[i].out) /\ Len(trace[i].out.lines) = 1
    THEN trace[CHOOSE i \in RanConfig("glimpse.base") : TRUE].out.lines[1]
    ELSE S("main")

\* The patterns of a branch listing: what follows its --format arguments.
Patterns(argv) == SubSeq(argv, 6, Len(argv))

\* C4: in Stack mode the base is --base when given (glimpse.base is then not
\* even read), else the value of glimpse.base when set, else main; it is the
\* base that the branch listing names and that is compared with the current
\* branch.
C4_BasePrecedence ==
    subcommand.kind = "stack" =>
        /\ IsSome(args.base) => RanConfig("glimpse.base") = {}
        /\ pc \notin {"main", "exited"} => base = ExpectedBase
        /\ \A i \in RanBranch("--list") :
             /\ \E k \in 1..Len(Patterns(trace[i].argv)) :
                    Patterns(trace[i].argv)[k] = ExpectedBase
             /\ \A k \in 1..Len(Patterns(trace[i].argv)) :
                    Patterns(trace[i].argv)[k] \in {ExpectedBase} \cup {S(b) : b \in BranchNames}

\* Without --base and with glimpse.base = trunk, the listing names trunk.
C4_Witness ==
    /\ subcommand.kind = "stack" /\ args.base = None
    /\ \E i \in RanConfig("glimpse.base") : trace[i].out.lines = <<S("trunk")>>
    /\ \E i \in RanBranch("--list") : Patterns(trace[i].argv)[1] = S("trunk")

\* ------------------------------------------------------------------ C5

\* The references a selection of the local branches in names calls for: each
\* branch of the repository among them once, in git's order, followed by its
\* upstream when upstreams are selected and it has one, then by its push
\* counterpart likewise.
ExpectedRefs(names, upstreams, pushes) ==
    Concat([i \in 1..Len(BranchOrder) |->
        LET b == BranchOrder[i] IN
        IF b \in names /\ refs[b] # "absent"
        THEN <<S(b)>>
             \o (IF upstreams /\ HasUpstream(refs[b]) THEN <<S("origin/" \o b)>> ELSE <<>>)
             \o (IF pushes /\ HasPush(refs[b]) THEN <<S("fork/" \o b)>> ELSE <<>>)
        ELSE <<>>])

\* The commit that --last-tag adds: the line git rev-list printed, if any.
ExpectedTag ==
    IF \E i \in Ran("rev-list") : Printed(trace[i].out) /\ trace[i].out.lines # <<>>
    THEN <<trace[CHOOSE i \in Ran("rev-list") : TRUE].out.lines[1]>>
    ELSE <<>>

NameOf(ref) == ref[1]

SelectsUpstreams(argv) == \E k \in 1..Len(argv[5]) : argv[5][k] = "%(upstream:short)"

\* C5: in Stack mode with a branch checked out, when that branch is the base
\* the listing names it once, selects upstreams whatever --upstreams says, and
\* the reference list holds the base once; when it is not the base the
\* listing names the base and then the current branch, and selects upstreams
\* only as --upstreams says.
C5_StackOnBase ==
    subcommand.kind = "stack" /\ IsSome(head) =>
        LET cur == Unwrap(head)
            up == IF cur = ExpectedBase THEN TRUE ELSE subcommand.config.select_upstreams
        IN /\ \A i \in RanBranch("--list") :
                /\ Patterns(trace[i].argv)
                     = IF cur = ExpectedBase THEN <<cur>> ELSE <<ExpectedBase, cur>>
                /\ SelectsUpstreams(trace[i].argv) <=> up
           /\ Selected =>
                /\ branches = ExpectedRefs({NameOf(cur), NameOf(ExpectedBase)}, up,
                                           subcommand.config.select_pushes)
                              \o ExpectedTag
                /\ Count(branches, cur) = 1
                /\ cur = ExpectedBase => Count(branches, ExpectedBase) = 1
                /\ cur # ExpectedBase =>
                     Count(branches, ExpectedBase)
                       = IF NameOf(ExpectedBase) \in BranchNames
                            /\ refs[NameOf(ExpectedBase)] # "absent" THEN 1 ELSE 0

\* On main, the default base, without --upstreams: the listing names main
\* alone and the list is main and its upstream.
C5_Witness ==
    /\ subcommand.kind = "stack" /\ ~subcommand.config.select_upstreams
    /\ head = Some(S("main")) /\ ExpectedBase = S("main")
    /\ \E i \in RanBranch("--list") : Patterns(trace[i].argv) = <<S("main")>>
    /\ Selected
    /\ branches = <<S("main"), S("origin/main")>>

\* ------------------------------------------------------------------ C6

SelectorQueries == RanConfig("glimpse.base") \cup Ran("branch") \cup Ran("rev-list")

\* The list as the listing printed it, with HEAD added by Stack when detached.
ListedRefs ==
    LET L == stdout_lines(trace[CHOOSE i \in RanBranch("--list") : TRUE].out).val
    IN IF subcommand.kind = "stack" /\ head = None THEN Append(L, S("HEAD")) ELSE L

\* --last-tag without a tag: a warning, the list as it was, and the run goes on.
NoTagOnlyWarns ==
    \A i \in Ran("rev-list") :
        Printed(trace[i].out) /\ trace[i].out.lines = <<>> =>
            /\ \E k \in Logged("warn") :
                   logs[k].msg = "last tag requested, but no last tag was found"
            /\ Selected
            /\ branches = ListedRefs
            /\ pc = "exited" => i < Len(trace)

\* C7 (as stated): a query of the selection that exits non-zero ends the run
\* with that code before merge-base or log is run; no tag for --last-tag only
\* warns.
C7_AsStated ==
    /\ \A i \in SelectorQueries :
         ExitedNonZero(trace[i].out) =>
            /\ pc = "exited" /\ exit_code = trace[i].out.code
            /\ Ran("merge-base") = {} /\ Ran("log") = {}
    /\ NoTagOnlyWarns

\* C7 (amended): as stated, except that git config glimpse.base exiting with
\* 1 says that the key is not set: the run goes on with the base main.
C7_SelectorFails ==
    /\ \A i \in SelectorQueries :
         ExitedNonZero(trace[i].out) /\ ~KeyAbsent(trace[i]) =>
            /\ pc = "exited" /\ exit_code = trace[i].out.code
            /\ Ran("merge-base") = {} /\ Ran("log") = {}
    /\ \A i \in RanConfig("glimpse.base") :
         KeyAbsent(trace[i]) =>
            /\ pc = "exited" => i < Len(trace)
            /\ pc # "exited" => base = S("main")
    /\ NoTagOnlyWarns

\* The listing exited with 128: so did the run, and show_graph never ran.
C7_Witness ==
    /\ \E i \in RanBranch("--list") : ExitedWith(trace[i].out, 128)
    /\ pc = "exited" /\ exit_code = Some(128)
    /\ Ran("merge-base") = {}

\* ------------------------------------------------------------------ C8

\* Locals with upstreams selected, the selection over.
LocalsWithUpstreams ==
    subcommand.kind = "locals" /\ subcommand.config.select_upstreams /\ Selected

\* The list of Locals with upstreams: HEAD first when detached, then every
\* local branch, each directly followed by its upstream if it has one (and
\* then by its push counterpart if those are selected too), then the last
\* tag if asked for and found; a branch without upstream adds nothing.
LocalsListIsExact ==
    /\ branches = (IF head = None THEN <<S("HEAD")>> ELSE <<>>)
                  \o ExpectedRefs(BranchNames, TRUE, subcommand.config.select_pushes)
                  \o ExpectedTag
    /\ \A b \in BranchNames :
         /\ Count(branches, S("origin/" \o b)) = IF HasUpstream(refs[b]) THEN 1 ELSE 0
         /\ HasUpstream(refs[b]) =>
              \E k \in 1..(Len(branches) - 1) :
                  branches[k] = S(b) /\ branches[k + 1] = S("origin/" \o b)

\* The run went on after the listing: it did not end with it.
ListingNotLast ==
    \A i \in RanBranch("--list") : pc = "exited" => i < Len(trace)

SomeBranchLacksUpstream == \E b \in BranchNames : refs[b] \in {"plain", "push"}

UpstreamWarnings ==
    {k \in Logged("warn") : logs[k].msg # "last tag requested, but no last tag was found"}

ConfiguredPretty ==
    IF \E i \in RanConfig("glimpse.pretty") :
           Printed(trace[i].out) /\ Len(trace[i].out.lines) = 1
    THEN Some(trace[CHOOSE i \in RanConfig("glimpse.pretty") : TRUE].out.lines[1])
    ELSE None

FormatArgs(argv) == {k \in 1..Len(argv) : IsFormatArg(argv[k])}

\* C9: git log gets --format=<the caller's format> when there is one, and
\* glimpse.pretty is then not read; else --format=<the value of
\* glimpse.pretty> when it is set; else no --format at all.
C9_FormatPrecedence ==
    /\ IsSome(args.format) => RanConfig("glimpse.pretty") = {}
    /\ \A i \in Ran("log") :
         LET argv == trace[i].argv IN
         IF IsSome(args.format)
         THEN FormatArgs(argv) = {5} /\ argv[5] = <<"--format=">> \o Unwrap(args.format)
         ELSE /\ RanConfig("glimpse.pretty") # {}
              /\ IF IsSome(ConfiguredPretty)
                 THEN /\ FormatArgs(argv) = {5}
                      /\ argv[5] = <<"--format=">> \o Unwrap(ConfiguredPretty)
                 ELSE FormatArgs(argv) = {}

\* Without a format and with glimpse.pretty not set, git log ran without any
\* --format.
C9_Witness ==
    /\ args.format = None
    /\ \E i \in RanConfig("glimpse.pretty") : ExitedWith(trace[i].out, KeyAbsentCode)
    /\ \E i \in Ran("log") : FormatArgs(trace[i].argv) = {} /\ Succeeded(trace[i].out)

\* ----------------------------------------------------------------- C10

\* The value the run holds for a key after a successful lookup.
Held(key) == IF key = S("glimpse.base") THEN specified_base ELSE format

\* C10: a git config lookup that exits with 1 yields no value and the run
\* goes on; one that cannot be spawned, is killed, exits with another code or
\* prints non-UTF-8 ends the run (254, 255, that code, 254); one that
\* succeeds yields its line, or no value when it printed none; more than one
\* line is a panic.
C10_GitConfig ==
    \A i \in Ran("config") :
        LET out == trace[i].out
            went_on == (pc = "exited" => i < Len(trace))
            ended(code) == pc = "exited" /\ i = Len(trace) /\ exit_code = Some(code)
        IN /\ ~out.spawned => ended(InternalSentinel)
           /\ Signalled(out) => ended(SignalSentinel)
           /\ ExitedWith(out, KeyAbsentCode) => went_on /\ Held(trace[i].argv[3]) = None
           /\ ExitedNonZero(out) /\ ~ExitedWith(out, KeyAbsentCode) => ended(Unwrap(out.code))
           /\ Succeeded(out) /\ ~out.utf8 => ended(InternalSentinel)
           /\ Printed(out) /\ Len(out.lines) > 1 => ended(PanicCode)
           /\ Printed(out) /\ Len(out.lines) = 0 => went_on /\ Held(trace[i].argv[3]) = None
           /\ Printed(out) /\ Len(out.lines) = 1 =>
                went_on /\ Held(trace[i].argv[3]) = Some(out.lines[1])

\* glimpse.base was not set and glimpse.pretty printed two lines: the first
\* lookup let the run go on, the second one panicked.
C10_Witness ==
    /\ \E i \in RanConfig("glimpse.base") : ExitedWith(trace[i].out, KeyAbsentCode)
    /\ \E i \in RanConfig("glimpse.pretty") : Len(trace[i].out.lines) = 2
    /\ pc = "exited" /\ exit_code = Some(PanicCode)

====
